---- MODULE Spec2Model ----
(***************************************************************************)
(* Web3-Pi UPS service.                                                    *)
(*                                                                         *)
(* Two programs are modelled:                                              *)
(*   Spec        the stand-alone service of src/src/main.rs: the signal    *)
(*               thread, main's supervisor loop and run_monitoring_loop;   *)
(*   SpecDaemon  the broadcasting monitor loop run_daemon of               *)
(*               src/src/daemon.rs with the IpcServer of src/src/ipc.rs    *)
(*               and the decision helpers of src/src/ups_data.rs.          *)
(* Four components are also modelled on their own:                         *)
(*   SpecIpc     the IpcServer of src/src/ipc.rs with several observers;   *)
(*   SpecDetect  detect_ups_port of src/src/main.rs applied to a registry  *)
(*               of serial devices;                                         *)
(*   SpecDecode  the decoder of run_monitoring_loop applied to one line;   *)
(*   SpecInstances  several IpcServers of src/src/ipc.rs on one socket     *)
(*               path.                                                     *)
(*                                                                         *)
(* Logging, and with it last_log_time and the periodic status line, has no *)
(* effect on any decision and is left out.                                  *)
(*                                                                         *)
(* Time is a global clock `now`, counted in ticks of 1/TicksPerSec second, *)
(* so that Duration::as_secs (a floor) is not the identity.  A sleep lasts *)
(* at least its duration; a read that times out has blocked for at least   *)
(* the port's timeout.                                                      *)
(***************************************************************************)
EXTENDS Integers, Sequences, FiniteSets, TLC

VARIABLES
    config,          \* the loaded Config (fixed after start-up)
    running,         \* Arc<AtomicBool> shared with the signal thread
    pc,              \* position of the main thread
    now,             \* the clock, in ticks
    shutdown_timer,  \* Option<Instant>: <<>> is None, <<t>> is Some(t)
    result,          \* what the last returned loop function returned
    sessions,        \* number of calls of the loop function so far
    shutdownCalls,   \* number of calls of execute_shutdown_script so far
    ev,              \* the event handled by the step that led to this state
    startedAt,       \* history (main.rs): time of the Idle-to-Counting step of the running countdown
    cancelled,       \* history (main.rs): a countdown was cancelled in this session
    clients,         \* IpcServer.clients (daemon)
    pending,         \* connections waiting in the listener's backlog (daemon)
    socket,          \* namespace entry at socket_path (daemon)
    nextClient,      \* next observer identity to connect (daemon)
    sent,            \* the writes of the broadcast of the last step, in order (daemon)
    evicted,         \* history (daemon): observers removed from the set by a broadcast
    tty_class,       \* the entries of /sys/class/tty, in the order read_dir yields them
    port_path,       \* Option<String>: the path the last session resolved
    readsAfterStop,  \* history (main.rs): read_line calls of the session made with the flag cleared
    trimmed,         \* Option: the line handed to serde_json::from_str (decoder alone)
    parsed,          \* Option: what serde_json::from_str returned for it (decoder alone)
    instances,       \* position of each IpcServer sharing the socket path (several servers)
    bound_to         \* the server whose bind created the file at socket_path, 0 when none

vars == <<config, running, pc, now, shutdown_timer, result, sessions,
          shutdownCalls, ev, startedAt, cancelled, clients, pending, socket,
          nextClient, sent, evicted, tty_class, port_path, readsAfterStop,
          trimmed, parsed, instances, bound_to>>

ipcVars == <<clients, pending, socket, nextClient, evicted>>

daemonVars == <<ipcVars, sent>>

deviceVars == <<tty_class, port_path>>

lineVars == <<trimmed, parsed>>

instanceVars == <<instances, bound_to>>

history == <<startedAt, cancelled, readsAfterStop>>

----------------------------------------------------------------------------
(* Bounds of the model *)

MaxTime == 24
MaxSessions == 3
TicksPerSec == 2

(* Constants of the program *)

U8_MAX == 255
READ_TIMEOUT_SECS == 10
EOF_SLEEP_SECS == 1
ERR_SLEEP_SECS == 1
BACKOFF_SECS == 5

Secs(s) == s * TicksPerSec

None == <<>>
Some(t) == <<t>>

----------------------------------------------------------------------------
(* Configuration of the stand-alone service (main.rs Config) *)

Configs ==
    { [port |-> "auto", shutdown_threshold |-> 10, shutdown_cancel_margin |-> 5,
       min_valid_voltage |-> 8000, max_valid_voltage |-> 21000, delay_seconds |-> 2],
      [port |-> "/dev/ttyACM0", shutdown_threshold |-> 10, shutdown_cancel_margin |-> 5,
       min_valid_voltage |-> 8000, max_valid_voltage |-> 26000, delay_seconds |-> 0],
      [port |-> "/dev/ttyACM0", shutdown_threshold |-> 250, shutdown_cancel_margin |-> 10,
       min_valid_voltage |-> 8000, max_valid_voltage |-> 26000, delay_seconds |-> 1] }

----------------------------------------------------------------------------
(* Device discovery: detect_ups_port of main.rs.  An entry of               *)
(* /sys/class/tty has a file name and a product file that is unreadable     *)
(* (None) or holds a text, modelled as its sequence of words and white      *)
(* space.                                                                   *)

MaxEntries == 3

TtyNames == {"ttyACM0", "ttyACM1", "ttyS0"}

Whitespace == {" ", "\n"}

Products ==
    { None,
      Some(<<"Web3_Pi_UPS", "\n">>),
      Some(<<"Pico", "\n">>),
      Some(<<"Web3_Pi_UPS", " ", "Pico">>),
      Some(<<"CDC", "\n">>) }

(* read_dir yields every entry once, in no particular order *)
Enumerations ==
    { e \in UNION {[1..n -> [name : TtyNames, product : Products]] : n \in 0..MaxEntries} :
         \A i, j \in DOMAIN e : i # j => e[i].name # e[j].name }

(* the registries met by the sessions of the service *)
SessionEnumerations ==
    { <<>>,
      <<[name |-> "ttyACM0", product |-> Some(<<"Web3_Pi_UPS", "\n">>)]>>,
      <<[name |-> "ttyACM1", product |-> Some(<<"Pico", "\n">>)]>> }

starts_with_ttyACM(name_str) == name_str \in {"ttyACM0", "ttyACM1"}

(* format!("/dev/{}", name_str) *)
device_path(name_str) ==
    CASE name_str = "ttyACM0" -> "/dev/ttyACM0"
      [] name_str = "ttyACM1" -> "/dev/ttyACM1"
      [] name_str = "ttyS0" -> "/dev/ttyS0"

(* str::trim *)
RECURSIVE trim_start(_)
trim_start(text) ==
    IF text # <<>> /\ Head(text) \in Whitespace THEN trim_start(Tail(text)) ELSE text

RECURSIVE trim_end(_)
trim_end(text) ==
    IF text # <<>> /\ text[Len(text)] \in Whitespace
    THEN trim_end(SubSeq(text, 1, Len(text) - 1))
    ELSE text

trim(text) == trim_end(trim_start(text))

(* str::contains, on the words of the text *)
contains(text, word) == \E i \in DOMAIN text : text[i] = word

(* the body of the for loop of detect_ups_port for one entry *)
ScanEntry(entry, found) ==
    IF ~starts_with_ttyACM(entry.name) THEN found
    ELSE LET path == device_path(entry.name)
             f1 == IF found.first_ttyacm = None
                   THEN [found EXCEPT !.first_ttyacm = Some(path)]
                   ELSE found
         IN IF entry.product = None THEN f1
            ELSE LET product == trim(entry.product[1])
                 IN IF product = <<"Web3_Pi_UPS">>
                    THEN [f1 EXCEPT !.web3_pi_ups = Some(path)]
                    ELSE IF contains(product, "Pico")
                         THEN IF f1.raspberry_pi_pico = None
                              THEN [f1 EXCEPT !.raspberry_pi_pico = Some(path)]
                              ELSE f1
                         ELSE f1

RECURSIVE Scan(_, _)
Scan(entries, found) ==
    IF entries = <<>> THEN found
    ELSE Scan(Tail(entries), ScanEntry(Head(entries), found))

NothingFound ==
    [web3_pi_ups |-> None, raspberry_pi_pico |-> None, first_ttyacm |-> None]

(* detect_ups_port returning the first known device of the enumeration     *)
(* instead of deciding by priority after the scan                          *)
detect_ups_port_first_known(entries) ==
    LET found == Scan(entries, NothingFound)
        known == {i \in DOMAIN entries :
                     /\ starts_with_ttyACM(entries[i].name)
                     /\ entries[i].product # None
                     /\ \/ trim(entries[i].product[1]) = <<"Web3_Pi_UPS">>
                        \/ contains(trim(entries[i].product[1]), "Pico")}
    IN IF known # {}
       THEN Some(device_path(entries[CHOOSE i \in known : \A j \in known : i <= j].name))
       ELSE found.first_ttyacm

(* detect_ups_port falling back to a fixed path when nothing is found *)
detect_ups_port_or_default(entries) ==
    LET found == Scan(entries, NothingFound)
    IN IF found.web3_pi_ups # None THEN found.web3_pi_ups
       ELSE IF found.raspberry_pi_pico # None THEN found.raspberry_pi_pico
       ELSE IF found.first_ttyacm # None THEN found.first_ttyacm
       ELSE Some("/dev/ttyACM0")

detect_ups_port(entries) ==
    LET found == Scan(entries, NothingFound)
    IN IF found.web3_pi_ups # None THEN found.web3_pi_ups
       ELSE IF found.raspberry_pi_pico # None THEN found.raspberry_pi_pico
       ELSE IF found.first_ttyacm # None THEN found.first_ttyacm
       ELSE None

----------------------------------------------------------------------------
(* Lines on the serial link.  A line is a JSON object, modelled as the      *)
(* function from the field names it carries to their values, or a text that *)
(* is no JSON object.                                                       *)

SocWire == {9, 14}
SdWire == {9, 10, 14, 15, 255}
ViWire == {7000, 8000, 22000}

Malformed == [malformed |-> TRUE]

Lines ==
    {[soc |-> s, sd |-> d, vi |-> v] : s \in SocWire, d \in SdWire, v \in ViWire}
    \cup {[soc |-> s, vi |-> v] : s \in SocWire, v \in ViWire}
    \cup {[sd |-> d, vi |-> v] : d \in SdWire, v \in ViWire}
    \cup {[soc |-> s, sd |-> d] : s \in SocWire, d \in SdWire}
    \cup {Malformed}

Has(line, f) == f \in DOMAIN line

(* The lines given to the decoder on its own: objects carrying any subset  *)
(* of soc, sd, vi, bv (one of the fields with a default) and xx (a name     *)
(* UpsData does not have), with values inside and outside the field's type, *)
(* and a text that is no object.  The upper end of u32 lies outside the     *)
(* integers of the checker: a value outside u32 is a negative one.          *)
FieldNames == {"soc", "sd", "vi", "bv", "xx"}

FieldValues(f) ==
    CASE f = "soc" -> {0, 14, 255, 256}
      [] f = "sd"  -> {0, 101, 255, 256, -1}
      [] f = "vi"  -> {0, 8000, -1}
      [] f = "bv"  -> {7400, -1}
      [] OTHER     -> {1}

AllFieldValues == UNION {FieldValues(f) : f \in FieldNames}

DecodeInputs ==
    UNION {{o \in [D -> AllFieldValues] : \A f \in D : o[f] \in FieldValues(f)} :
              D \in SUBSET FieldNames}
    \cup {Malformed}

u8(v) == v \in 0..U8_MAX

u32(v) == v >= 0

(* Decode with sd among the required fields *)
Decode_sd_required(line) ==
    IF Has(line, "malformed") THEN [ok |-> FALSE, soc |-> 0, sd |-> 0, vi |-> 0, bv |-> 0]
    ELSE IF ~Has(line, "soc") \/ ~Has(line, "vi") \/ ~Has(line, "sd")
    THEN [ok |-> FALSE, soc |-> 0, sd |-> 0, vi |-> 0, bv |-> 0]
    ELSE IF ~u8(line.soc) \/ ~u32(line.vi) \/ ~u8(line.sd)
    THEN [ok |-> FALSE, soc |-> 0, sd |-> 0, vi |-> 0, bv |-> 0]
    ELSE IF Has(line, "bv") /\ ~u32(line.bv)
    THEN [ok |-> FALSE, soc |-> 0, sd |-> 0, vi |-> 0, bv |-> 0]
    ELSE [ok |-> TRUE, soc |-> line.soc, sd |-> line.sd, vi |-> line.vi,
          bv |-> IF Has(line, "bv") THEN line.bv ELSE 0]

(* serde_json::from_str::<UpsData> with the UpsData of main.rs: soc and vi  *)
(* are required, sd and every other field have #[serde(default)] and are 0  *)
(* when absent; a field that is present with a value outside its type is an *)
(* error; a field UpsData does not have is ignored.                         *)
DecodeFail == [ok |-> FALSE, soc |-> 0, sd |-> 0, vi |-> 0, bv |-> 0]

Decode(line) ==
    IF Has(line, "malformed") THEN DecodeFail
    ELSE IF ~Has(line, "soc") \/ ~Has(line, "vi") THEN DecodeFail
    ELSE IF ~u8(line.soc) \/ ~u32(line.vi) THEN DecodeFail
    ELSE IF Has(line, "sd") /\ ~u8(line.sd) THEN DecodeFail
    ELSE IF Has(line, "bv") /\ ~u32(line.bv) THEN DecodeFail
    ELSE [ok |-> TRUE, soc |-> line.soc,
          sd |-> IF Has(line, "sd") THEN line.sd ELSE 0,
          vi |-> line.vi,
          bv |-> IF Has(line, "bv") THEN line.bv ELSE 0]

----------------------------------------------------------------------------
(* Decision helpers of main.rs *)

(* is_on_battery without the upper end of the valid range *)
is_on_battery_min_only(vi, min_valid_voltage, max_valid_voltage) ==
    vi < min_valid_voltage

is_on_battery(vi, min_valid_voltage, max_valid_voltage) ==
    vi < min_valid_voltage \/ vi > max_valid_voltage

(* should_shutdown deciding on the display metric soc *)
should_shutdown_on_soc(ups_data, battery) ==
    LET low_battery == ups_data.soc < battery.shutdown_threshold
        on_battery == is_on_battery(ups_data.vi, battery.min_valid_voltage,
                                    battery.max_valid_voltage)
    IN low_battery /\ on_battery

should_shutdown(ups_data, battery) ==
    LET low_battery == ups_data.sd < battery.shutdown_threshold
        on_battery == is_on_battery(ups_data.vi, battery.min_valid_voltage,
                                    battery.max_valid_voltage)
    IN low_battery /\ on_battery

saturating_add(a, b) == IF a + b > U8_MAX THEN U8_MAX ELSE a + b

(* u8 + u8 in a build without overflow checks *)
wrapping_add(a, b) == (a + b) % (U8_MAX + 1)

(* as_secs rounding up instead of down *)
as_secs_rounded_up(ticks) == (ticks + TicksPerSec - 1) \div TicksPerSec

(* Duration::as_secs: whole seconds of a duration given in ticks *)
as_secs(ticks) == ticks \div TicksPerSec

(* PolicyStep without the hysteresis margin: the countdown is cancelled as  *)
(* soon as sd is back at the threshold                                      *)
PolicyStep_cancel_at_threshold(ups_data, on_battery, cfg, timer, t) ==
    IF should_shutdown(ups_data, cfg)
    THEN IF timer = None
         THEN [timer |-> Some(t), fire |-> FALSE]
         ELSE IF as_secs(t - timer[1]) >= cfg.delay_seconds
              THEN [timer |-> timer, fire |-> TRUE]
              ELSE [timer |-> timer, fire |-> FALSE]
    ELSE IF timer # None
         THEN IF ~on_battery \/ ups_data.sd >= cfg.shutdown_threshold
              THEN [timer |-> None, fire |-> FALSE]
              ELSE [timer |-> timer, fire |-> FALSE]
         ELSE [timer |-> timer, fire |-> FALSE]

(* PolicyStep restarting the countdown on a sample that does not cancel it *)
PolicyStep_restart_in_band(ups_data, on_battery, cfg, timer, t) ==
    IF should_shutdown(ups_data, cfg)
    THEN IF timer = None
         THEN [timer |-> Some(t), fire |-> FALSE]
         ELSE IF as_secs(t - timer[1]) >= cfg.delay_seconds
              THEN [timer |-> timer, fire |-> TRUE]
              ELSE [timer |-> timer, fire |-> FALSE]
    ELSE IF timer # None
         THEN IF ~on_battery
                 \/ ups_data.sd >= saturating_add(cfg.shutdown_threshold,
                                                  cfg.shutdown_cancel_margin)
              THEN [timer |-> None, fire |-> FALSE]
              ELSE [timer |-> Some(t), fire |-> FALSE]
         ELSE [timer |-> timer, fire |-> FALSE]

(* PolicyStep firing on any sample once the delay has elapsed *)
PolicyStep_fire_first(ups_data, on_battery, cfg, timer, t) ==
    IF timer # None /\ as_secs(t - timer[1]) >= cfg.delay_seconds
    THEN [timer |-> timer, fire |-> TRUE]
    ELSE IF should_shutdown(ups_data, cfg)
    THEN IF timer = None
         THEN [timer |-> Some(t), fire |-> FALSE]
         ELSE [timer |-> timer, fire |-> FALSE]
    ELSE IF timer # None
         THEN IF ~on_battery
                 \/ ups_data.sd >= saturating_add(cfg.shutdown_threshold,
                                                  cfg.shutdown_cancel_margin)
              THEN [timer |-> None, fire |-> FALSE]
              ELSE [timer |-> timer, fire |-> FALSE]
         ELSE [timer |-> timer, fire |-> FALSE]

(* PolicyStep starting the countdown again on every trigger sample that    *)
(* does not fire                                                            *)
PolicyStep_restart_on_trigger(ups_data, on_battery, cfg, timer, t) ==
    IF should_shutdown(ups_data, cfg)
    THEN IF timer = None
         THEN [timer |-> Some(t), fire |-> FALSE]
         ELSE IF as_secs(t - timer[1]) >= cfg.delay_seconds
              THEN [timer |-> timer, fire |-> TRUE]
              ELSE [timer |-> Some(t), fire |-> FALSE]
    ELSE IF timer # None
         THEN IF ~on_battery
                 \/ ups_data.sd >= saturating_add(cfg.shutdown_threshold,
                                                  cfg.shutdown_cancel_margin)
              THEN [timer |-> None, fire |-> FALSE]
              ELSE [timer |-> timer, fire |-> FALSE]
         ELSE [timer |-> timer, fire |-> FALSE]

(* The shutdown policy of run_monitoring_loop for one decoded sample,       *)
(* evaluated at time t with the countdown `timer`; on_battery is the value  *)
(* the loop computed for that sample before the decision.                   *)
PolicyStep(ups_data, on_battery, cfg, timer, t) ==
    IF should_shutdown(ups_data, cfg)
    THEN IF timer = None
         THEN [timer |-> Some(t), fire |-> FALSE]
         ELSE LET elapsed == as_secs(t - timer[1])
              IN IF elapsed >= cfg.delay_seconds
                 THEN [timer |-> timer, fire |-> TRUE]
                 ELSE [timer |-> timer, fire |-> FALSE]
    ELSE IF timer # None
         THEN LET cancel_threshold ==
                      saturating_add(cfg.shutdown_threshold,
                                     cfg.shutdown_cancel_margin)
                  battery_recovered == ups_data.sd >= cancel_threshold
                  power_restored == ~on_battery
              IN IF power_restored \/ battery_recovered
                 THEN [timer |-> None, fire |-> FALSE]
                 ELSE [timer |-> timer, fire |-> FALSE]
         ELSE [timer |-> timer, fire |-> FALSE]

----------------------------------------------------------------------------
(* Events *)

NoSample == [soc |-> 0, sd |-> 0, vi |-> 0]

(* An event carries the sample of the step and the countdown before the    *)
(* step (pre); a session start also carries the path resolved by the       *)
(* session before it (prev_path) and the cancel level its start-up message *)
(* reports.                                                                *)
Event(type, sample, on_battery, pre, fired) ==
    [type |-> type, soc |-> sample.soc, sd |-> sample.sd, vi |-> sample.vi,
     on_battery |-> on_battery, pre |-> pre, fired |-> fired,
     reported |-> 0, prev_path |-> None]

NoEvent == Event("none", NoSample, FALSE, None, FALSE)

----------------------------------------------------------------------------
(* The stand-alone service: main.rs *)

Init ==
    /\ config \in Configs
    /\ running = TRUE
    /\ pc = "start"
    /\ now = 0
    /\ shutdown_timer = None
    /\ result = "none"
    /\ sessions = 0
    /\ shutdownCalls = 0
    /\ ev = NoEvent
    /\ startedAt = None
    /\ cancelled = FALSE
    /\ clients = <<>>
    /\ pending = <<>>
    /\ socket = "absent"
    /\ nextClient = 1
    /\ sent = <<>>
    /\ evicted = {}
    /\ tty_class \in SessionEnumerations
    /\ port_path = None
    /\ readsAfterStop = 0
    /\ trimmed = None
    /\ parsed = None
    /\ instances = <<>>
    /\ bound_to = 0

(* The clock.  Time passes at any point of the program; a sleep and a read  *)
(* that times out add their own duration (EofSleepDone, ReadTimeout, ...).  *)
Tick ==
    /\ now < MaxTime
    /\ now' = now + 1
    /\ ev' = NoEvent
    /\ sent' = <<>>
    /\ UNCHANGED <<config, running, pc, shutdown_timer, result, sessions,
                   shutdownCalls, ipcVars, history, deviceVars,
                   lineVars, instanceVars>>

(* The signal thread: the first SIGINT or SIGTERM clears the flag. *)
Signal ==
    /\ running
    /\ pc \notin {"done", "returned", "start_failed", "panicked"}
    /\ running' = FALSE
    /\ ev' = NoEvent
    /\ sent' = <<>>
    /\ UNCHANGED <<config, pc, now, shutdown_timer, result, sessions,
                   shutdownCalls, ipcVars, history, deviceVars,
                   lineVars, instanceVars>>

(* A device is plugged in or removed: the registry changes. *)
Hotplug ==
    /\ \E e \in SessionEnumerations : e # tty_class /\ tty_class' = e
    /\ ev' = NoEvent
    /\ UNCHANGED <<config, running, pc, now, shutdown_timer, result, sessions,
                   shutdownCalls, daemonVars, history, port_path, lineVars, instanceVars>>

(* a session start that keeps the path resolved by an earlier session *)
StartSession_cached ==
    /\ pc = "start"
    /\ sessions < MaxSessions
    /\ sessions' = sessions + 1
    /\ \E opened \in BOOLEAN, overflow_checks \in BOOLEAN :
          LET resolved == IF config.port # "auto" THEN Some(config.port)
                          ELSE IF port_path # None THEN port_path
                          ELSE detect_ups_port(tty_class)
              overflows == config.shutdown_threshold
                               + config.shutdown_cancel_margin > U8_MAX
          IN /\ port_path' = resolved
             /\ IF resolved # None /\ opened
                THEN /\ pc' = IF overflows /\ overflow_checks THEN "panicked" ELSE "loop"
                     /\ result' = "none"
                     /\ ev' = [Event("session", NoSample, FALSE, None, FALSE)
                                  EXCEPT !.reported =
                                      wrapping_add(config.shutdown_threshold,
                                                   config.shutdown_cancel_margin),
                                         !.prev_path = port_path]
                ELSE /\ pc' = "backoff_check"
                     /\ result' = "err"
                     /\ ev' = Event(IF resolved # None THEN "open_failed" ELSE "not_found",
                                    NoSample, FALSE, None, FALSE)
    /\ shutdown_timer' = None
    /\ startedAt' = None
    /\ cancelled' = FALSE
    /\ readsAfterStop' = 0
    /\ UNCHANGED <<config, running, now, shutdownCalls, daemonVars, tty_class,
                   lineVars, instanceVars>>

(* main calls run_monitoring_loop: the port is resolved (detect_ups_port   *)
(* in auto mode) and opened, and the start-up message adds threshold and   *)
(* margin as plain u8: when the sum overflows, a build with overflow       *)
(* checks panics and a build without them wraps the logged value and goes  *)
(* on.                                                                      *)
StartSession ==
    /\ pc = "start"
    /\ sessions < MaxSessions
    /\ sessions' = sessions + 1
    /\ \E opened \in BOOLEAN, overflow_checks \in BOOLEAN :
          LET resolved == IF config.port = "auto" THEN detect_ups_port(tty_class)
                          ELSE Some(config.port)
              overflows == config.shutdown_threshold
                               + config.shutdown_cancel_margin > U8_MAX
          IN /\ port_path' = resolved
             /\ IF resolved # None /\ opened
                THEN /\ pc' = IF overflows /\ overflow_checks THEN "panicked" ELSE "loop"
                     /\ result' = "none"
                     /\ ev' = [Event("session", NoSample, FALSE, None, FALSE)
                                  EXCEPT !.reported =
                                      wrapping_add(config.shutdown_threshold,
                                                   config.shutdown_cancel_margin),
                                         !.prev_path = port_path]
                ELSE /\ pc' = "backoff_check"
                     /\ result' = "err"
                     /\ ev' = Event(IF resolved # None THEN "open_failed" ELSE "not_found",
                                    NoSample, FALSE, None, FALSE)
    /\ shutdown_timer' = None
    /\ startedAt' = None
    /\ cancelled' = FALSE
    /\ readsAfterStop' = 0
    /\ UNCHANGED <<config, running, now, shutdownCalls, daemonVars, tty_class,
                   lineVars, instanceVars>>

(* a loop that does not poll the flag *)
LoopCheck_no_poll ==
    /\ pc = "loop"
    /\ pc' = "read"
    /\ ev' = NoEvent
    /\ UNCHANGED <<config, running, now, shutdown_timer, result, sessions,
                   shutdownCalls, daemonVars, history, deviceVars,
                   lineVars, instanceVars>>

(* while running.load(SeqCst) *)
LoopCheck ==
    /\ pc = "loop"
    /\ IF running
       THEN /\ pc' = "read"
            /\ result' = result
       ELSE /\ pc' = "done"
            /\ result' = "ok"
    /\ ev' = NoEvent
    /\ UNCHANGED <<config, running, now, shutdown_timer, sessions, shutdownCalls,
                   daemonVars, history, deviceVars,
                   lineVars, instanceVars>>

(* read_line returns Ok(0) *)
ReadEof ==
    /\ pc = "read"
    /\ pc' = "eof_sleep"
    /\ ev' = Event("eof", NoSample, FALSE, shutdown_timer, FALSE)
    /\ readsAfterStop' = IF running THEN readsAfterStop ELSE readsAfterStop + 1
    /\ UNCHANGED <<config, running, now, shutdown_timer, result, sessions,
                   shutdownCalls, daemonVars, startedAt, cancelled, deviceVars,
                   lineVars, instanceVars>>

EofSleepDone ==
    /\ pc = "eof_sleep"
    /\ now + Secs(EOF_SLEEP_SECS) <= MaxTime
    /\ now' = now + Secs(EOF_SLEEP_SECS)
    /\ pc' = "loop"
    /\ ev' = NoEvent
    /\ UNCHANGED <<config, running, shutdown_timer, result, sessions,
                   shutdownCalls, daemonVars, history, deviceVars,
                   lineVars, instanceVars>>

(* read_line returns a line that is empty after trim *)
ReadEmptyLine ==
    /\ pc = "read"
    /\ pc' = "loop"
    /\ ev' = Event("empty", NoSample, FALSE, shutdown_timer, FALSE)
    /\ readsAfterStop' = IF running THEN readsAfterStop ELSE readsAfterStop + 1
    /\ UNCHANGED <<config, running, now, shutdown_timer, result, sessions,
                   shutdownCalls, daemonVars, startedAt, cancelled, deviceVars,
                   lineVars, instanceVars>>

(* read_line returns Err(TimedOut) after the port's timeout *)
ReadTimeout ==
    /\ pc = "read"
    /\ now + Secs(READ_TIMEOUT_SECS) <= MaxTime
    /\ now' = now + Secs(READ_TIMEOUT_SECS)
    /\ pc' = "loop"
    /\ ev' = Event("timeout", NoSample, FALSE, shutdown_timer, FALSE)
    /\ readsAfterStop' = IF running THEN readsAfterStop ELSE readsAfterStop + 1
    /\ UNCHANGED <<config, running, shutdown_timer, result, sessions,
                   shutdownCalls, daemonVars, startedAt, cancelled, deviceVars,
                   lineVars, instanceVars>>

(* read_line returns another error: logged, one second of sleep, and the   *)
(* match ends, so the while loop goes on.                                   *)
ReadError ==
    /\ pc = "read"
    /\ pc' = "err_sleep"
    /\ ev' = Event("io_error", NoSample, FALSE, shutdown_timer, FALSE)
    /\ readsAfterStop' = IF running THEN readsAfterStop ELSE readsAfterStop + 1
    /\ UNCHANGED <<config, running, now, shutdown_timer, result, sessions,
                   shutdownCalls, daemonVars, startedAt, cancelled, deviceVars,
                   lineVars, instanceVars>>

ErrSleepDone ==
    /\ pc = "err_sleep"
    /\ now + Secs(ERR_SLEEP_SECS) <= MaxTime
    /\ now' = now + Secs(ERR_SLEEP_SECS)
    /\ pc' = "loop"
    /\ ev' = NoEvent
    /\ UNCHANGED <<config, running, shutdown_timer, result, sessions,
                   shutdownCalls, daemonVars, history, deviceVars,
                   lineVars, instanceVars>>

(* read_line returns a non-empty line that does not decode *)
ReadParseError ==
    /\ pc = "read"
    /\ (\E line \in Lines : ~Decode(line).ok) = TRUE
    /\ ev' = Event("parse_error", NoSample, FALSE, shutdown_timer, FALSE)
    /\ pc' = "loop"
    /\ readsAfterStop' = IF running THEN readsAfterStop ELSE readsAfterStop + 1
    /\ UNCHANGED <<config, running, now, shutdown_timer, result, sessions,
                   shutdownCalls, daemonVars, startedAt, cancelled, deviceVars,
                   lineVars, instanceVars>>

(* read_line returns a line that decodes: the policy is evaluated, and     *)
(* execute_shutdown_script is called when it fires.  A launched command    *)
(* leaves the thread in the endless wait; a failed launch returns Err      *)
(* through run_monitoring_loop to main.                                    *)
ReadSample ==
    /\ pc = "read"
    /\ \E line \in Lines :
          LET ups_data == Decode(line)
              on_battery == is_on_battery(ups_data.vi, config.min_valid_voltage,
                                          config.max_valid_voltage)
              r == PolicyStep(ups_data, on_battery, config, shutdown_timer, now)
          IN /\ ups_data.ok
             /\ ev' = Event("sample", [ups_data EXCEPT !.soc = 0], on_battery,
                               shutdown_timer, r.fire)
             /\ startedAt' = IF r.timer = None THEN None
                              ELSE IF shutdown_timer = None THEN Some(now)
                              ELSE startedAt
             /\ cancelled' = (cancelled \/ (shutdown_timer # None /\ r.timer = None))
             /\ readsAfterStop' = IF running THEN readsAfterStop ELSE readsAfterStop + 1
             /\ shutdown_timer' = r.timer
             /\ IF r.fire
                THEN /\ shutdownCalls' = shutdownCalls + 1
                     /\ \E script_exists \in BOOLEAN, spawned \in BOOLEAN :
                           IF spawned
                           THEN pc' = "shutdown_wait" /\ result' = result
                           ELSE pc' = "backoff_check" /\ result' = "err"
                ELSE /\ shutdownCalls' = shutdownCalls
                     /\ pc' = "loop"
                     /\ result' = result
    /\ UNCHANGED <<config, running, now, sessions, daemonVars, deviceVars,
                   lineVars, instanceVars>>

(* main, Err(e) arm: the flag is read, then the backoff sleep starts *)
BackoffCheck ==
    /\ pc = "backoff_check"
    /\ IF ~running
       THEN pc' = "done"
       ELSE pc' = "backoff_sleep"
    /\ ev' = NoEvent
    /\ UNCHANGED <<config, running, now, shutdown_timer, result, sessions,
                   shutdownCalls, daemonVars, history, deviceVars,
                   lineVars, instanceVars>>

BackoffDone ==
    /\ pc = "backoff_sleep"
    /\ now + Secs(BACKOFF_SECS) <= MaxTime
    /\ now' = now + Secs(BACKOFF_SECS)
    /\ pc' = "start"
    /\ ev' = NoEvent
    /\ UNCHANGED <<config, running, shutdown_timer, result, sessions,
                   shutdownCalls, daemonVars, history, deviceVars,
                   lineVars, instanceVars>>

Next ==
    \/ Tick
    \/ Signal
    \/ Hotplug
    \/ StartSession
    \/ LoopCheck
    \/ ReadEof
    \/ EofSleepDone
    \/ ReadEmptyLine
    \/ ReadTimeout
    \/ ReadError
    \/ ErrSleepDone
    \/ ReadParseError
    \/ ReadSample
    \/ BackoffCheck
    \/ BackoffDone

Spec == Init /\ [][Next]_vars

(* The steps of the main thread.  The thread is scheduled and every call   *)
(* it blocks in returns (read_line at the latest with the port's timeout,  *)
(* thread::sleep after its duration), so a step of it that stays possible  *)
(* is eventually taken.  The signal, the registry and the clock are the     *)
(* environment's.                                                           *)
MainThread ==
    \/ StartSession
    \/ LoopCheck
    \/ ReadEof
    \/ EofSleepDone
    \/ ReadEmptyLine
    \/ ReadTimeout
    \/ ReadError
    \/ ErrSleepDone
    \/ ReadParseError
    \/ ReadSample
    \/ BackoffCheck
    \/ BackoffDone

(* The service with the UPS attached and the registry left alone *)
InitLive ==
    /\ Init
    /\ tty_class = <<[name |-> "ttyACM0", product |-> Some(<<"Web3_Pi_UPS", "\n">>)]>>

NextLive ==
    \/ Tick
    \/ Signal
    \/ MainThread

SpecLive == InitLive /\ [][NextLive]_vars /\ WF_vars(MainThread)

----------------------------------------------------------------------------
(* The broadcasting monitor loop: daemon.rs, ipc.rs, ups_data.rs, config.rs *)

MaxClients == 1

WRITE_TIMEOUT_MS == 100

(* config.rs Config: BatteryConfig has shutdown_threshold and              *)
(* min_valid_voltage only.                                                  *)
DaemonConfigs ==
    { [port |-> "/dev/ttyACM0", shutdown_threshold |-> 10,
       min_valid_voltage |-> 8000, delay_seconds |-> d,
       socket_path |-> "/var/run/w3p-ups/ups.sock"] : d \in {0, 2} }

(* The lines read by run_daemon.  Its decoder has no field sd: two values  *)
(* of sd on the wire, and its absence, are enough.                         *)
DaemonSdWire == {9, 14}

DaemonLines ==
    {[soc |-> s, sd |-> d, vi |-> v] : s \in SocWire, d \in DaemonSdWire, v \in ViWire}
    \cup {[soc |-> s, vi |-> v] : s \in SocWire, v \in ViWire}
    \cup {[sd |-> d, vi |-> v] : d \in DaemonSdWire, v \in ViWire}
    \cup {[soc |-> s, sd |-> d] : s \in SocWire, d \in DaemonSdWire}
    \cup {Malformed}

(* serde_json::from_str::<UpsData> with the UpsData of ups_data.rs: soc    *)
(* and vi are required; the struct has no field sd, so an sd on the wire   *)
(* is skipped.  wire_sd keeps what the line carried (0 when absent) for    *)
(* the properties; the program does not read it.                            *)
DaemonDecodeFail == [ok |-> FALSE, soc |-> 0, vi |-> 0, wire_sd |-> 0]

DaemonDecode(line) ==
    IF Has(line, "malformed") THEN DaemonDecodeFail
    ELSE IF ~Has(line, "soc") \/ ~Has(line, "vi") THEN DaemonDecodeFail
    ELSE IF line.soc > U8_MAX THEN DaemonDecodeFail
    ELSE [ok |-> TRUE, soc |-> line.soc, vi |-> line.vi,
          wire_sd |-> IF Has(line, "sd") THEN line.sd ELSE 0]

(* ups_data.rs *)
ups_data_is_on_battery(vi, min_valid_voltage) == vi < min_valid_voltage

ups_data_should_shutdown(ups_data, shutdown_threshold, min_valid_voltage) ==
    LET low_soc == ups_data.soc < shutdown_threshold
        on_battery == ups_data_is_on_battery(ups_data.vi, min_valid_voltage)
    IN low_soc /\ on_battery

(* The shutdown decision of run_daemon for one decoded sample *)
DaemonPolicyStep(ups_data, cfg, timer, t) ==
    IF ups_data_should_shutdown(ups_data, cfg.shutdown_threshold,
                                cfg.min_valid_voltage)
    THEN IF timer = None
         THEN [timer |-> Some(t), fire |-> FALSE]
         ELSE LET elapsed == as_secs(t - timer[1])
              IN IF elapsed >= cfg.delay_seconds
                 THEN [timer |-> timer, fire |-> TRUE]
                 ELSE [timer |-> timer, fire |-> FALSE]
    ELSE IF timer # None
         THEN [timer |-> None, fire |-> FALSE]
         ELSE [timer |-> timer, fire |-> FALSE]

(* IpcServer::accept_clients: connections are taken from the backlog until *)
(* accept reports WouldBlock (all taken) or another error (the loop        *)
(* breaks early); the result of set_write_timeout is discarded.            *)
Accepted(backlog, k, timeouts) ==
    [i \in 1..k |-> [id |-> backlog[i], write_timeout |-> timeouts[i]]]

ClientIds(cs) == {cs[i].id : i \in 1..Len(cs)}

(* serde_json::to_string(data) and format!("{}\n", json): the object has   *)
(* the fields of the UpsData of ups_data.rs, so no sd, and is followed by   *)
(* a newline.                                                               *)
Serialize(ups_data) == <<[soc |-> ups_data.soc, vi |-> ups_data.vi], "\n">>

(* What write_all can return for a client: a client with a write timeout   *)
(* that does not take the bytes fails with a timeout.                       *)
WriteResults(c) == IF c.write_timeout THEN {"ok", "error", "timeout"} ELSE {"ok", "error"}

WriteOutcomes(cs) ==
    { o \in [ClientIds(cs) -> {"ok", "error", "timeout"}] :
         \A i \in DOMAIN cs : o[cs[i].id] \in WriteResults(cs[i]) }

(* the time write_all of client i has blocked *)
BlockedMs(write_result) == IF write_result = "timeout" THEN WRITE_TIMEOUT_MS ELSE 0

(* retain_mut calls the closure for one client after the other: the write  *)
(* to client i begins when the writes to the clients before it have        *)
(* returned.                                                                *)
RECURSIVE BlockedBefore(_, _, _)
BlockedBefore(cs, outcome, i) ==
    IF i = 1 THEN 0
    ELSE BlockedBefore(cs, outcome, i - 1) + BlockedMs(outcome[cs[i - 1].id])

(* IpcServer::broadcast writing a second time to a client whose write     *)
(* failed                                                                   *)
Writes_with_retry(cs, message, outcome) ==
    LET first == [i \in DOMAIN cs |->
                    [id |-> cs[i].id, message |-> message,
                     result |-> outcome[cs[i].id],
                     began_after_ms |-> BlockedBefore(cs, outcome, i)]]
    IN first \o SelectSeq(first, LAMBDA w : w.result # "ok")

(* IpcServer::broadcast writing to the first client only *)
Writes_first_only(cs, message, outcome) ==
    [i \in {k \in DOMAIN cs : k = 1} |->
        [id |-> cs[i].id, message |-> message, result |-> outcome[cs[i].id],
         began_after_ms |-> 0]]

(* the writes of one broadcast, in the order they are made *)
Writes(cs, message, outcome) ==
    [i \in DOMAIN cs |->
        [id |-> cs[i].id, message |-> message, result |-> outcome[cs[i].id],
         began_after_ms |-> BlockedBefore(cs, outcome, i)]]

(* IpcServer::broadcast keeping every client, whatever its write returned *)
Retained_keeps_all(cs, ok) == cs

(* IpcServer::broadcast: retain_mut keeps the clients whose write_all      *)
(* succeeded, in order.                                                     *)
Retained(cs, ok) == SelectSeq(cs, LAMBDA c : c.id \in ok)

Delivered(outcome) == {c \in DOMAIN outcome : outcome[c] = "ok"}

(* IpcServer dropped without the removal of the socket file *)
DropIpc_keeps_socket ==
    /\ socket' = "stale"
    /\ clients' = <<>>
    /\ pending' = <<>>

(* IpcServer dropped: remove_file is called on the socket path and its     *)
(* result is discarded, then listener and clients are closed.  When the    *)
(* removal fails the file stays, with no listener behind it.               *)
DropIpc ==
    /\ \E removed \in BOOLEAN : socket' = IF removed THEN "absent" ELSE "stale"
    /\ clients' = <<>>
    /\ pending' = <<>>

InitDaemon ==
    /\ config \in DaemonConfigs
    /\ running = TRUE
    /\ pc = "start"
    /\ now = 0
    /\ shutdown_timer = None
    /\ result = "none"
    /\ sessions = 0
    /\ shutdownCalls = 0
    /\ ev = NoEvent
    /\ startedAt = None
    /\ cancelled = FALSE
    /\ clients = <<>>
    /\ pending = <<>>
    /\ socket \in {"absent", "stale"}
    /\ nextClient = 1
    /\ sent = <<>>
    /\ evicted = {}
    /\ tty_class = <<>>
    /\ port_path = None
    /\ readsAfterStop = 0
    /\ trimmed = None
    /\ parsed = None
    /\ instances = <<>>
    /\ bound_to = 0

(* An observer connects to the socket (connect_to_daemon). *)
Connect ==
    /\ socket = "bound"
    /\ nextClient <= MaxClients
    /\ pending' = Append(pending, nextClient)
    /\ nextClient' = nextClient + 1
    /\ ev' = NoEvent
    /\ sent' = <<>>
    /\ UNCHANGED <<config, running, pc, now, shutdown_timer, result,
                   sessions, shutdownCalls, clients, socket, evicted, history,
                   deviceVars,
                   lineVars, instanceVars>>

(* run_daemon up to the loop: the port is opened, then IpcServer::new      *)
(* removes an old socket file, creates the directory, binds and sets the   *)
(* listener non-blocking; each step can fail and returns Err, which leaves *)
(* the thread at "start_failed"; "returned" is a return out of the loop.   *)
DaemonStart ==
    /\ pc = "start"
    /\ sessions = 0
    /\ sessions' = 1
    /\ \E failed \in {"none", "open", "remove", "mkdir", "bind", "nonblocking"} :
          /\ failed = "remove" => socket = "stale"
          /\ socket' = CASE failed = "none" -> "bound"
                         [] failed = "open" -> socket
                         [] failed = "remove" -> socket
                         [] failed = "nonblocking" -> "stale"
                         [] OTHER -> "absent"
          /\ IF failed = "none"
             THEN pc' = "loop" /\ result' = "none"
             ELSE pc' = "start_failed" /\ result' = "err"
          /\ ev' = Event(IF failed = "none" THEN "session" ELSE "start_failed",
                         NoSample, FALSE, None, FALSE)
    /\ UNCHANGED <<config, running, now, shutdown_timer, shutdownCalls,
                   clients, pending, nextClient, sent, evicted, history,
                   deviceVars,
                   lineVars, instanceVars>>

(* while running.load(SeqCst) { ipc.accept_clients(); ... read_line *)
DaemonLoopCheck ==
    /\ pc = "loop"
    /\ IF running
       THEN /\ pc' = "read"
            /\ result' = result
            /\ \E k \in 0..Len(pending) :
               \E timeouts \in [1..k -> BOOLEAN] :
                  /\ clients' = clients \o Accepted(pending, k, timeouts)
                  /\ pending' = SubSeq(pending, k + 1, Len(pending))
            /\ socket' = socket
       ELSE /\ pc' = "returned"
            /\ result' = "ok"
            /\ DropIpc
    /\ ev' = NoEvent
    /\ sent' = <<>>
    /\ UNCHANGED <<config, running, now, shutdown_timer, sessions, shutdownCalls,
                   nextClient, evicted, history, deviceVars,
                   lineVars, instanceVars>>

DaemonReadEof ==
    /\ pc = "read"
    /\ pc' = "eof_sleep"
    /\ ev' = Event("eof", NoSample, FALSE, shutdown_timer, FALSE)
    /\ UNCHANGED <<config, running, now, shutdown_timer, result, sessions,
                   shutdownCalls, daemonVars, history, deviceVars,
                   lineVars, instanceVars>>

DaemonEofSleepDone ==
    /\ pc = "eof_sleep"
    /\ now + Secs(EOF_SLEEP_SECS) <= MaxTime
    /\ now' = now + Secs(EOF_SLEEP_SECS)
    /\ pc' = "loop"
    /\ ev' = NoEvent
    /\ UNCHANGED <<config, running, shutdown_timer, result, sessions,
                   shutdownCalls, daemonVars, history, deviceVars,
                   lineVars, instanceVars>>

DaemonReadEmptyLine ==
    /\ pc = "read"
    /\ pc' = "loop"
    /\ ev' = Event("empty", NoSample, FALSE, shutdown_timer, FALSE)
    /\ UNCHANGED <<config, running, now, shutdown_timer, result, sessions,
                   shutdownCalls, daemonVars, history, deviceVars,
                   lineVars, instanceVars>>

(* a read timeout that ends the session with an error *)
DaemonReadTimeout_ends_session ==
    /\ pc = "read"
    /\ now + Secs(READ_TIMEOUT_SECS) <= MaxTime
    /\ now' = now + Secs(READ_TIMEOUT_SECS)
    /\ pc' = "returned"
    /\ result' = "err"
    /\ DropIpc
    /\ ev' = Event("timeout", NoSample, FALSE, shutdown_timer, FALSE)
    /\ UNCHANGED <<config, running, shutdown_timer, sessions, shutdownCalls,
                   nextClient, sent, evicted, history, deviceVars,
                   lineVars, instanceVars>>

DaemonReadTimeout ==
    /\ pc = "read"
    /\ now + Secs(READ_TIMEOUT_SECS) <= MaxTime
    /\ now' = now + Secs(READ_TIMEOUT_SECS)
    /\ pc' = "loop"
    /\ ev' = Event("timeout", NoSample, FALSE, shutdown_timer, FALSE)
    /\ UNCHANGED <<config, running, shutdown_timer, result, sessions,
                   shutdownCalls, daemonVars, history, deviceVars,
                   lineVars, instanceVars>>

(* another read error: logged, one second of sleep, the while loop goes on *)
DaemonReadError ==
    /\ pc = "read"
    /\ pc' = "err_sleep"
    /\ ev' = Event("io_error", NoSample, FALSE, shutdown_timer, FALSE)
    /\ UNCHANGED <<config, running, now, shutdown_timer, result, sessions,
                   shutdownCalls, daemonVars, history, deviceVars,
                   lineVars, instanceVars>>

DaemonErrSleepDone ==
    /\ pc = "err_sleep"
    /\ now + Secs(ERR_SLEEP_SECS) <= MaxTime
    /\ now' = now + Secs(ERR_SLEEP_SECS)
    /\ pc' = "loop"
    /\ ev' = NoEvent
    /\ UNCHANGED <<config, running, shutdown_timer, result, sessions,
                   shutdownCalls, daemonVars, history, deviceVars,
                   lineVars, instanceVars>>

(* a line that does not decode cancelling the countdown *)
DaemonReadParseError_cancels ==
    /\ pc = "read"
    /\ (\E line \in DaemonLines : ~DaemonDecode(line).ok) = TRUE
    /\ ev' = Event("parse_error", NoSample, FALSE, shutdown_timer, FALSE)
    /\ pc' = "loop"
    /\ shutdown_timer' = None
    /\ UNCHANGED <<config, running, now, result, sessions, shutdownCalls,
                   daemonVars, history, deviceVars,
                   lineVars, instanceVars>>

DaemonReadParseError ==
    /\ pc = "read"
    /\ (\E line \in DaemonLines : ~DaemonDecode(line).ok) = TRUE
    /\ ev' = Event("parse_error", NoSample, FALSE, shutdown_timer, FALSE)
    /\ pc' = "loop"
    /\ UNCHANGED <<config, running, now, shutdown_timer, result, sessions,
                   shutdownCalls, daemonVars, history, deviceVars,
                   lineVars, instanceVars>>

(* a decoded sample evaluated first and broadcast only when it does not   *)
(* fire                                                                     *)
DaemonReadSample_decide_first ==
    /\ pc = "read"
    /\ \E line \in DaemonLines, outcome \in WriteOutcomes(clients) :
          LET ups_data == DaemonDecode(line)
              on_battery == ups_data_is_on_battery(ups_data.vi,
                                                   config.min_valid_voltage)
              r == DaemonPolicyStep(ups_data, config, shutdown_timer, now)
          IN /\ ups_data.ok
             /\ sent' = IF r.fire THEN <<>>
                        ELSE Writes(clients, Serialize(ups_data), outcome)
             /\ evicted' = IF r.fire THEN evicted
                           ELSE evicted \cup (ClientIds(clients) \ Delivered(outcome))
             /\ ev' = Event("sample",
                            [soc |-> ups_data.soc, sd |-> ups_data.wire_sd,
                             vi |-> ups_data.vi],
                            on_battery, shutdown_timer, r.fire)
             /\ shutdown_timer' = r.timer
             /\ IF r.fire
                THEN /\ shutdownCalls' = shutdownCalls + 1
                     /\ \E script_exists \in BOOLEAN, spawned \in BOOLEAN :
                           result' = IF spawned THEN "ok" ELSE "err"
                     /\ pc' = "returned"
                     /\ DropIpc
                ELSE /\ shutdownCalls' = shutdownCalls
                     /\ pc' = "loop"
                     /\ result' = result
                     /\ clients' = Retained(clients, Delivered(outcome))
                     /\ UNCHANGED <<pending, socket>>
    /\ UNCHANGED <<config, running, now, sessions, nextClient, history, deviceVars,
                   lineVars, instanceVars>>

(* A decoded sample: broadcast, then the shutdown decision.  When it       *)
(* fires, execute_shutdown_script launches the command and run_daemon      *)
(* returns: Ok when the launch succeeded, Err when it failed.              *)
DaemonReadSample ==
    /\ pc = "read"
    /\ \E line \in DaemonLines, outcome \in WriteOutcomes(clients) :
          LET ups_data == DaemonDecode(line)
              on_battery == ups_data_is_on_battery(ups_data.vi,
                                                   config.min_valid_voltage)
              r == DaemonPolicyStep(ups_data, config, shutdown_timer, now)
          IN /\ ups_data.ok
             /\ sent' = Writes(clients, Serialize(ups_data), outcome)
             /\ evicted' = evicted \cup (ClientIds(clients) \ Delivered(outcome))
             /\ ev' = Event("sample",
                            [soc |-> ups_data.soc, sd |-> ups_data.wire_sd,
                             vi |-> ups_data.vi],
                            on_battery, shutdown_timer, r.fire)
             /\ shutdown_timer' = r.timer
             /\ IF r.fire
                THEN /\ shutdownCalls' = shutdownCalls + 1
                     /\ \E script_exists \in BOOLEAN, spawned \in BOOLEAN :
                           result' = IF spawned THEN "ok" ELSE "err"
                     /\ pc' = "returned"
                     /\ DropIpc
                ELSE /\ shutdownCalls' = shutdownCalls
                     /\ pc' = "loop"
                     /\ result' = result
                     /\ clients' = Retained(clients, Delivered(outcome))
                     /\ UNCHANGED <<pending, socket>>
    /\ UNCHANGED <<config, running, now, sessions, nextClient, history, deviceVars,
                   lineVars, instanceVars>>

(* A decoded sample whose broadcast reaches a client that has no write     *)
(* timeout and does not take the bytes: write_all does not return.         *)
DaemonWriteBlocked ==
    /\ pc = "read"
    /\ (\E line \in DaemonLines : DaemonDecode(line).ok) = TRUE
    /\ \E j \in DOMAIN clients :
          /\ ~clients[j].write_timeout
          /\ \A i \in 1..(j - 1) : clients[i].write_timeout
    /\ pc' = "write_blocked"
    /\ ev' = Event("write_blocked", NoSample, FALSE, shutdown_timer, FALSE)
    /\ UNCHANGED <<config, running, now, shutdown_timer, result, sessions,
                   shutdownCalls, daemonVars, history, deviceVars,
                   lineVars, instanceVars>>

NextDaemon ==
    \/ Tick
    \/ Signal
    \/ Connect
    \/ DaemonStart
    \/ DaemonLoopCheck
    \/ DaemonReadEof
    \/ DaemonEofSleepDone
    \/ DaemonReadEmptyLine
    \/ DaemonReadTimeout
    \/ DaemonReadError
    \/ DaemonErrSleepDone
    \/ DaemonReadParseError
    \/ DaemonReadSample
    \/ DaemonWriteBlocked

SpecDaemon == InitDaemon /\ [][NextDaemon]_vars

----------------------------------------------------------------------------
(* The IpcServer of ipc.rs on its own: new, accept_clients, broadcast and  *)
(* drop, called in any order on one server, with observers connecting.     *)

MaxObservers == 2

InitIpc ==
    /\ config \in {c \in DaemonConfigs : c.delay_seconds = 0}
    /\ running = TRUE
    /\ pc = "start"
    /\ now = 0
    /\ shutdown_timer = None
    /\ result = "none"
    /\ sessions = 0
    /\ shutdownCalls = 0
    /\ ev = NoEvent
    /\ startedAt = None
    /\ cancelled = FALSE
    /\ clients = <<>>
    /\ pending = <<>>
    /\ socket \in {"absent", "stale"}
    /\ nextClient = 1
    /\ sent = <<>>
    /\ evicted = {}
    /\ tty_class = <<>>
    /\ port_path = None
    /\ readsAfterStop = 0
    /\ trimmed = None
    /\ parsed = None
    /\ instances = <<>>
    /\ bound_to = 0

ipcIdle == <<config, running, now, shutdown_timer, result, sessions,
             shutdownCalls, history, deviceVars,
                   lineVars, instanceVars>>

(* IpcServer::new *)
IpcNew ==
    /\ pc = "start"
    /\ \E failed \in {"none", "remove", "mkdir", "bind", "nonblocking"} :
          /\ failed = "remove" => socket = "stale"
          /\ socket' = CASE failed = "none" -> "bound"
                         [] failed = "remove" -> socket
                         [] failed = "nonblocking" -> "stale"
                         [] OTHER -> "absent"
          /\ pc' = IF failed = "none" THEN "serving" ELSE "start_failed"
    /\ ev' = NoEvent
    /\ UNCHANGED <<ipcIdle, clients, pending, nextClient, sent, evicted>>

(* an observer connects (connect_to_daemon) *)
IpcConnect ==
    /\ socket = "bound"
    /\ nextClient <= MaxObservers
    /\ pending' = Append(pending, nextClient)
    /\ nextClient' = nextClient + 1
    /\ ev' = NoEvent
    /\ sent' = <<>>
    /\ UNCHANGED <<ipcIdle, pc, clients, socket, evicted>>

(* IpcServer::accept_clients *)
IpcAcceptClients ==
    /\ pc = "serving"
    /\ \E k \in 0..Len(pending) :
       \E timeouts \in [1..k -> BOOLEAN] :
          /\ clients' = clients \o Accepted(pending, k, timeouts)
          /\ pending' = SubSeq(pending, k + 1, Len(pending))
    /\ ev' = NoEvent
    /\ sent' = <<>>
    /\ UNCHANGED <<ipcIdle, pc, socket, nextClient, evicted>>

(* IpcServer::broadcast(data) *)
IpcBroadcast ==
    /\ pc = "serving"
    /\ \E line \in DaemonLines, outcome \in WriteOutcomes(clients) :
          LET data == DaemonDecode(line)
          IN /\ data.ok
             /\ sent' = Writes(clients, Serialize(data), outcome)
             /\ clients' = Retained(clients, Delivered(outcome))
             /\ evicted' = evicted \cup (ClientIds(clients) \ Delivered(outcome))
             /\ ev' = Event("sample",
                            [soc |-> data.soc, sd |-> data.wire_sd, vi |-> data.vi],
                            FALSE, None, FALSE)
    /\ UNCHANGED <<ipcIdle, pc, pending, socket, nextClient>>

(* broadcast reaching a client that has no write timeout and does not take *)
(* the bytes: write_all does not return                                    *)
IpcBroadcastBlocked ==
    /\ pc = "serving"
    /\ \E j \in DOMAIN clients :
          /\ ~clients[j].write_timeout
          /\ \A i \in 1..(j - 1) : clients[i].write_timeout
    /\ pc' = "write_blocked"
    /\ ev' = Event("write_blocked", NoSample, FALSE, None, FALSE)
    /\ sent' = <<>>
    /\ UNCHANGED <<ipcIdle, clients, pending, socket, nextClient, evicted>>

(* the IpcServer goes out of scope *)
IpcDrop ==
    /\ pc = "serving"
    /\ pc' = "dropped"
    /\ DropIpc
    /\ ev' = NoEvent
    /\ sent' = <<>>
    /\ UNCHANGED <<ipcIdle, nextClient, evicted>>

NextIpc ==
    \/ IpcNew
    \/ IpcConnect
    \/ IpcAcceptClients
    \/ IpcBroadcast
    \/ IpcBroadcastBlocked
    \/ IpcDrop

SpecIpc == InitIpc /\ [][NextIpc]_vars

----------------------------------------------------------------------------
(* Device discovery on its own: detect_ups_port applied to a registry *)

InitDetect ==
    /\ config \in {c \in Configs : c.port = "auto"}
    /\ running = TRUE
    /\ pc = "detect"
    /\ now = 0
    /\ shutdown_timer = None
    /\ result = "none"
    /\ sessions = 0
    /\ shutdownCalls = 0
    /\ ev = NoEvent
    /\ startedAt = None
    /\ cancelled = FALSE
    /\ clients = <<>>
    /\ pending = <<>>
    /\ socket = "absent"
    /\ nextClient = 1
    /\ sent = <<>>
    /\ evicted = {}
    /\ tty_class \in Enumerations
    /\ port_path = None
    /\ readsAfterStop = 0
    /\ trimmed = None
    /\ parsed = None
    /\ instances = <<>>
    /\ bound_to = 0

Detect ==
    /\ pc = "detect"
    /\ port_path' = detect_ups_port(tty_class)
    /\ pc' = "detected"
    /\ UNCHANGED <<config, running, now, shutdown_timer, result, sessions,
                   shutdownCalls, ev, daemonVars, history, tty_class, lineVars, instanceVars>>

NextDetect == Detect

SpecDetect == InitDetect /\ [][NextDetect]_vars

----------------------------------------------------------------------------
(* The decoder of run_monitoring_loop on its own: serde_json::from_str     *)
(* applied to one line                                                      *)

InitDecode ==
    /\ config \in {c \in Configs : c.port = "auto"}
    /\ running = TRUE
    /\ pc = "decode"
    /\ now = 0
    /\ shutdown_timer = None
    /\ result = "none"
    /\ sessions = 0
    /\ shutdownCalls = 0
    /\ ev = NoEvent
    /\ startedAt = None
    /\ cancelled = FALSE
    /\ clients = <<>>
    /\ pending = <<>>
    /\ socket = "absent"
    /\ nextClient = 1
    /\ sent = <<>>
    /\ evicted = {}
    /\ tty_class = <<>>
    /\ port_path = None
    /\ readsAfterStop = 0
    /\ trimmed \in {Some(line) : line \in DecodeInputs}
    /\ parsed = None
    /\ instances = <<>>
    /\ bound_to = 0

DecodeLine ==
    /\ pc = "decode"
    /\ parsed' = Some(Decode(trimmed[1]))
    /\ pc' = "decoded"
    /\ UNCHANGED <<config, running, now, shutdown_timer, result, sessions,
                   shutdownCalls, ev, daemonVars, history, deviceVars, trimmed,
                   instanceVars>>

NextDecode == DecodeLine

SpecDecode == InitDecode /\ [][NextDecode]_vars

----------------------------------------------------------------------------
(* Several IpcServers on one socket path: a second daemon instance.  Each  *)
(* server runs IpcServer::new step by step and is dropped later; the calls  *)
(* of the servers interleave.  socket is the entry at the path: "absent",   *)
(* "bound" (the file of a listener that is open) or "stale" (a file whose   *)
(* listener is closed); bound_to is the server that created the file.       *)

MaxInstances == 2

InitInstances ==
    /\ config \in {c \in DaemonConfigs : c.delay_seconds = 0}
    /\ running = TRUE
    /\ pc = "serving"
    /\ now = 0
    /\ shutdown_timer = None
    /\ result = "none"
    /\ sessions = 0
    /\ shutdownCalls = 0
    /\ ev = NoEvent
    /\ startedAt = None
    /\ cancelled = FALSE
    /\ clients = <<>>
    /\ pending = <<>>
    /\ socket \in {"absent", "stale"}
    /\ nextClient = 1
    /\ sent = <<>>
    /\ evicted = {}
    /\ tty_class = <<>>
    /\ port_path = None
    /\ readsAfterStop = 0
    /\ trimmed = None
    /\ parsed = None
    /\ instances = [i \in 1..MaxInstances |-> "start"]
    /\ bound_to = 0

instancesIdle == <<config, running, pc, now, shutdown_timer, result, sessions,
                   shutdownCalls, ev, clients, sent, evicted, history,
                   deviceVars, lineVars>>

(* IpcServer::new: Path::new(socket_path).exists() *)
NewExists(i) ==
    /\ instances[i] = "start"
    /\ instances' = [instances EXCEPT ![i] = IF socket # "absent" THEN "remove"
                                             ELSE "bind"]
    /\ UNCHANGED <<instancesIdle, socket, bound_to, pending, nextClient>>

(* IpcServer::new: fs::remove_file(socket_path)?  The file is removed      *)
(* whoever created it; when it is gone by now, or cannot be removed, new    *)
(* returns Err.                                                             *)
NewRemove(i) ==
    /\ instances[i] = "remove"
    /\ \E removed \in BOOLEAN :
          IF removed /\ socket # "absent"
          THEN /\ socket' = "absent"
               /\ bound_to' = 0
               /\ instances' = [instances EXCEPT ![i] = "bind"]
          ELSE /\ instances' = [instances EXCEPT ![i] = "failed"]
               /\ UNCHANGED <<socket, bound_to>>
    /\ UNCHANGED <<instancesIdle, pending, nextClient>>

(* IpcServer::new: create_dir_all(parent)? and UnixListener::bind(path)?   *)
(* bind fails when the path exists.                                         *)
NewBind(i) ==
    /\ instances[i] = "bind"
    /\ \E failed \in {"none", "mkdir", "bind"} :
          IF failed = "none" /\ socket = "absent"
          THEN /\ socket' = "bound"
               /\ bound_to' = i
               /\ instances' = [instances EXCEPT ![i] = "nonblocking"]
          ELSE /\ instances' = [instances EXCEPT ![i] = "failed"]
               /\ UNCHANGED <<socket, bound_to>>
    /\ UNCHANGED <<instancesIdle, pending, nextClient>>

(* IpcServer::new: listener.set_nonblocking(true)? and Ok(IpcServer {..}); *)
(* on Err the listener is closed and its file stays.                        *)
NewNonblocking(i) ==
    /\ instances[i] = "nonblocking"
    /\ \E ok \in BOOLEAN :
          IF ok
          THEN /\ instances' = [instances EXCEPT ![i] = "live"]
               /\ UNCHANGED socket
          ELSE /\ instances' = [instances EXCEPT ![i] = "failed"]
               /\ socket' = IF bound_to = i THEN "stale" ELSE socket
    /\ UNCHANGED <<instancesIdle, bound_to, pending, nextClient>>

(* Drop for IpcServer: remove_file(&self.socket_path) with its result      *)
(* discarded, then the listener is closed.  The file at the path is         *)
(* removed whoever created it.                                              *)
DropInstance(i) ==
    /\ instances[i] = "live"
    /\ instances' = [instances EXCEPT ![i] = "dropped"]
    /\ \E removed \in BOOLEAN :
          IF removed /\ socket # "absent"
          THEN socket' = "absent" /\ bound_to' = 0
          ELSE /\ socket' = IF bound_to = i THEN "stale" ELSE socket
               /\ bound_to' = bound_to
    /\ UNCHANGED <<instancesIdle, pending, nextClient>>

(* connect_to_daemon: UnixStream::connect(socket_path) reaches the         *)
(* listener the file at the path belongs to                                 *)
ConnectToPath ==
    /\ socket = "bound"
    /\ nextClient <= MaxObservers
    /\ pending' = Append(pending, [id |-> nextClient, listener |-> bound_to])
    /\ nextClient' = nextClient + 1
    /\ UNCHANGED <<instancesIdle, socket, instanceVars>>

NextInstances ==
    \/ \E i \in 1..MaxInstances : NewExists(i)
    \/ \E i \in 1..MaxInstances : NewRemove(i)
    \/ \E i \in 1..MaxInstances : NewBind(i)
    \/ \E i \in 1..MaxInstances : NewNonblocking(i)
    \/ \E i \in 1..MaxInstances : DropInstance(i)
    \/ ConnectToPath

SpecInstances == InitInstances /\ [][NextInstances]_vars

----------------------------------------------------------------------------
(* Properties of the stand-alone service.  They are stated on the event of  *)
(* the last step (ev), the countdown before it (ev.pre) and after it        *)
(* (shutdown_timer), with the conditions written out from the               *)
(* configuration rather than through the operators of the model.            *)

OutOfRange(v) == v < config.min_valid_voltage \/ v > config.max_valid_voltage

Trigger(e) == e.sd < config.shutdown_threshold /\ OutOfRange(e.vi)

CancelLevel ==
    IF config.shutdown_threshold + config.shutdown_cancel_margin > U8_MAX
    THEN U8_MAX
    ELSE config.shutdown_threshold + config.shutdown_cancel_margin

CancelCondition(e) == ~OutOfRange(e.vi) \/ e.sd >= CancelLevel

DelayTicks == config.delay_seconds * TicksPerSec

Evaluated == ev.type = "sample"

(* C1: execute_shutdown_script is invoked at most once; after it has been  *)
(* invoked no further sample is evaluated and the supervisor starts no new *)
(* session, whatever the outcome of launching the shutdown command.         *)
C1_ShutdownAtMostOnce ==
    /\ shutdownCalls <= 1
    /\ shutdownCalls >= 1 =>
          /\ ev.type \notin {"session", "open_failed", "not_found"}
          /\ Evaluated => ev.fired

(* C2: shutdown fires only while a countdown is active and only when at    *)
(* least delay_seconds whole seconds have elapsed since the Idle-to-       *)
(* Counting step of that same countdown; a countdown started from Idle     *)
(* (also after a cancel) starts at the time of the sample that starts it.  *)
C2_FiresOnlyAfterDelay ==
    /\ (Evaluated /\ ev.fired) =>
          /\ ev.pre # None
          /\ startedAt # None
          /\ ev.pre = startedAt
          /\ now - startedAt[1] >= DelayTicks
    /\ (Evaluated /\ ev.pre = None /\ shutdown_timer # None) =>
          shutdown_timer = Some(now)

C2_Witness ==
    /\ Evaluated /\ ev.fired
    /\ cancelled
    /\ config.delay_seconds > 0
    /\ now - startedAt[1] = DelayTicks

(* C3: while a countdown is active, a step cancels it if and only if it    *)
(* evaluates a decoded sample that is not on battery or whose sd is at     *)
(* least threshold + margin (saturating); EOF, timeout, read error, parse  *)
(* error and trigger samples do not cancel.  With threshold 10 and margin  *)
(* 5 on battery, sd = 15 cancels and sd = 14 does not.                     *)
C3_CancelIff ==
    /\ ev.pre # None =>
          (shutdown_timer = None <=> (Evaluated /\ CancelCondition(ev)))
    /\ (/\ Evaluated /\ ev.pre # None /\ OutOfRange(ev.vi)
        /\ config.shutdown_threshold = 10 /\ config.shutdown_cancel_margin = 5) =>
          /\ ev.sd = 15 => shutdown_timer = None
          /\ ev.sd = 14 => shutdown_timer # None

C3_Witness ==
    /\ Evaluated /\ ev.pre # None /\ OutOfRange(ev.vi)
    /\ config.shutdown_threshold = 10 /\ config.shutdown_cancel_margin = 5
    /\ ev.sd = 15
    /\ shutdown_timer = None

(* C4: a sample that neither cancels nor fires leaves the countdown active *)
(* with the start timestamp set by the sample that started it; this holds  *)
(* in particular for an on-battery sample with threshold <= sd <           *)
(* threshold + margin.                                                      *)
C4_BandKeepsCountdown ==
    /\ (Evaluated /\ ev.pre # None /\ ~ev.fired /\ ~CancelCondition(ev)) =>
          /\ shutdown_timer = ev.pre
          /\ shutdown_timer = startedAt
    /\ (/\ Evaluated /\ ev.pre # None /\ OutOfRange(ev.vi)
        /\ ev.sd >= config.shutdown_threshold /\ ev.sd < CancelLevel) =>
          /\ ~ev.fired
          /\ shutdown_timer = ev.pre

C4_Witness ==
    /\ Evaluated /\ ev.pre # None /\ OutOfRange(ev.vi)
    /\ ev.sd >= config.shutdown_threshold /\ ev.sd < CancelLevel
    /\ now > ev.pre[1]
    /\ shutdown_timer = ev.pre

(* C5: the rules are applied in the order of the specification: whenever  *)
(* a sample is evaluated while a countdown is active and the elapsed       *)
(* whole seconds are >= delay_seconds, shutdown is fired on that sample,   *)
(* before any cancel condition is considered, for every sd and vi.         *)
C5_FiresWheneverElapsed ==
    (Evaluated /\ ev.pre # None /\ now - ev.pre[1] >= DelayTicks) => ev.fired

(* C6: a sample that satisfies trigger while no countdown is active leaves *)
(* the countdown active with start = now, and shutdown is not fired on it. *)
C6_IdleTriggerStartsCountdown ==
    (Evaluated /\ ev.pre = None /\ Trigger(ev)) =>
        /\ shutdown_timer = Some(now)
        /\ ~ev.fired
        /\ pc = "loop"

C6_Witness ==
    /\ Evaluated /\ ev.pre = None /\ Trigger(ev)
    /\ config.delay_seconds = 0
    /\ shutdown_timer = Some(now)

(* C7: the on-battery value of a sample is true exactly when vi < min or   *)
(* vi > max, and that value decides both the trigger and the               *)
(* power-restored cancel of the sample.                                    *)
C7_OnBattery ==
    Evaluated =>
        /\ ev.on_battery <=> OutOfRange(ev.vi)
        /\ ev.pre = None =>
              (shutdown_timer # None <=>
                  (ev.sd < config.shutdown_threshold /\ OutOfRange(ev.vi)))
        /\ (ev.pre # None /\ ~OutOfRange(ev.vi)) => shutdown_timer = None
        /\ (ev.pre # None /\ OutOfRange(ev.vi) /\ ev.sd < CancelLevel) =>
              shutdown_timer # None

C7_Witness ==
    /\ Evaluated /\ ev.pre = None
    /\ ev.vi > config.max_valid_voltage
    /\ ev.on_battery
    /\ shutdown_timer = Some(now)

(* C10: a serial read error other than a timeout ends the session: the     *)
(* loop returns an error to the supervisor and does not read from the      *)
(* same handle again.                                                       *)
C10_ReadErrorEndsSession ==
    ev.type = "io_error" => (pc = "backoff_check" /\ result = "err")

SessionStarted == ev.type \in {"session", "open_failed", "not_found"}

(* C13: once the signal thread has cleared the running flag the supervisor *)
(* establishes no further session: the device is not resolved or opened    *)
(* again, also when the signal arrives during the backoff sleep.           *)
C13_NoSessionAfterCancel ==
    (SessionStarted /\ sessions >= 2) => running

IsRead(e) ==
    e.type \in {"eof", "empty", "timeout", "io_error", "parse_error", "sample"}

(* C14: the flag is polled once per iteration, before the read: an         *)
(* iteration that begins with the flag cleared reads nothing, evaluates    *)
(* nothing, fires nothing and the loop returns success; so at most one     *)
(* read, and with it at most one evaluation, takes place in a session      *)
(* after the flag was cleared.                                             *)
C14_PollBeforeRead ==
    /\ [](readsAfterStop <= 1)
    /\ [][(pc = "loop" /\ ~running) =>
             /\ pc' \in {"loop", "done"}
             /\ pc' = "done" => result' = "ok"
             /\ ~IsRead(ev')
             /\ shutdownCalls' = shutdownCalls
             /\ shutdown_timer' = shutdown_timer]_vars

C14_Witness ==
    /\ pc = "done"
    /\ result = "ok"
    /\ readsAfterStop = 1
    /\ shutdown_timer # None

Candidates(entries) ==
    {i \in DOMAIN entries : entries[i].name \in {"ttyACM0", "ttyACM1"}}

Readable(entries) == {i \in Candidates(entries) : entries[i].product # None}

ExactMarker(entries) ==
    {i \in Readable(entries) :
        entries[i].product[1] \in {<<"Web3_Pi_UPS">>, <<"Web3_Pi_UPS", "\n">>}}

LegacyMarker(entries) ==
    {i \in Readable(entries) :
        \E k \in DOMAIN entries[i].product[1] : entries[i].product[1][k] = "Pico"}

First(S) == CHOOSE i \in S : \A j \in S : i <= j

PathOf(entries, i) ==
    IF entries[i].name = "ttyACM0" THEN <<"/dev/ttyACM0">> ELSE <<"/dev/ttyACM1">>

(* C15: detect_ups_port returns a candidate whose product is Web3_Pi_UPS   *)
(* if there is one, wherever it stands in the enumeration; otherwise the   *)
(* first candidate whose product contains Pico; otherwise the first        *)
(* candidate; and None exactly when there is no candidate.                 *)
C15_DetectByPriority ==
    pc = "detected" =>
        /\ ExactMarker(tty_class) # {} =>
               port_path \in {PathOf(tty_class, i) : i \in ExactMarker(tty_class)}
        /\ (ExactMarker(tty_class) = {} /\ LegacyMarker(tty_class) # {}) =>
               port_path = PathOf(tty_class, First(LegacyMarker(tty_class)))
        /\ (ExactMarker(tty_class) = {} /\ LegacyMarker(tty_class) = {}
                /\ Candidates(tty_class) # {}) =>
               port_path = PathOf(tty_class, First(Candidates(tty_class)))
        /\ port_path = <<>> <=> Candidates(tty_class) = {}

C15_Witness ==
    /\ pc = "detected"
    /\ Len(tty_class) = 3
    /\ 1 \in LegacyMarker(tty_class) \ ExactMarker(tty_class)
    /\ 3 \in ExactMarker(tty_class)
    /\ port_path = PathOf(tty_class, 3)

(* C16: in auto mode, a session start that finds no candidate device       *)
(* returns an error to the supervisor without opening a port: no session   *)
(* begins, nothing is read and nothing is evaluated.                       *)
C16_NotFoundEndsStart ==
    /\ [][(pc = "start" /\ pc' # "start" /\ config.port = "auto"
              /\ Candidates(tty_class) = {}) =>
             /\ ev'.type = "not_found"
             /\ pc' = "backoff_check"
             /\ result' = "err"
             /\ port_path' = <<>>
             /\ shutdown_timer' = <<>>
             /\ shutdownCalls' = shutdownCalls]_vars
    /\ [](ev.type = "not_found" =>
             (config.port = "auto" /\ pc = "backoff_check" /\ result = "err"))

C16_Witness ==
    /\ ev.type = "not_found"
    /\ config.port = "auto"
    /\ sessions = 2
    /\ pc = "backoff_check"

(* C21: every computation of threshold + margin made by                    *)
(* run_monitoring_loop, the cancel level of the decision and the level     *)
(* reported when monitoring starts, is min(threshold + margin, 255):       *)
(* nothing wraps around and nothing overflows.                             *)
C21_SumSaturates ==
    /\ pc # "panicked"
    /\ ev.type = "session" => ev.reported = CancelLevel
    /\ (Evaluated /\ ev.pre # <<>> /\ OutOfRange(ev.vi)) =>
          (shutdown_timer = <<>> <=> ev.sd >= CancelLevel)

(* C22: every sample handed to the shutdown policy has its percentages in  *)
(* 0..100: a line carrying a percentage above 100 is not turned into a     *)
(* sample.                                                                  *)
C22_PercentagesInRange ==
    Evaluated => (ev.soc \in 0..100 /\ ev.sd \in 0..100)

TypeRange(f) ==
    CASE f \in {"soc", "sd"} -> 0..U8_MAX
      [] f \in {"vi", "bv"} -> Nat

Required == {"soc", "vi"}

Defaulted == {"sd", "bv"}

ExpectedPath(entries) ==
    IF ExactMarker(entries) # {}
    THEN PathOf(entries, First(ExactMarker(entries)))
    ELSE IF LegacyMarker(entries) # {}
    THEN PathOf(entries, First(LegacyMarker(entries)))
    ELSE IF Candidates(entries) # {}
    THEN PathOf(entries, First(Candidates(entries)))
    ELSE <<>>

(* C27: in auto mode every call of run_monitoring_loop resolves the device *)
(* from the registry as it is at that call and opens that path, never the  *)
(* path an earlier session resolved.                                       *)
C27_ResolvedEverySession ==
    [][(pc = "start" /\ pc' # "start" /\ config.port = "auto") =>
          /\ port_path' = ExpectedPath(tty_class)
          /\ ev'.type = "session" => port_path' # <<>>]_vars

C27_Witness ==
    /\ ev.type = "session"
    /\ config.port = "auto"
    /\ sessions >= 2
    /\ ev.prev_path # <<>>
    /\ port_path # ev.prev_path
    /\ port_path = <<"/dev/ttyACM1">>

(* C28: shutdown is fired only by the evaluation of a decoded sample that  *)
(* itself satisfies trigger: never on a sample with vi in the valid range  *)
(* or sd at or above the threshold, and never by a timeout, an EOF, a read *)
(* error or a parse error, however long the countdown has run.             *)
C28_FiresOnlyOnTrigger ==
    /\ [][shutdownCalls' # shutdownCalls =>
             (ev'.type = "sample" /\ ev'.fired /\ Trigger(ev'))]_vars
    /\ [](ev.fired => (Evaluated /\ Trigger(ev)))

C28_Witness ==
    /\ Evaluated
    /\ ev.fired
    /\ Trigger(ev)
    /\ ev.vi > config.max_valid_voltage
    /\ shutdownCalls = 1

(* C29: if cancellation is never requested, a sample that satisfies        *)
(* trigger is evaluated while at least the delay is left on the clock,     *)
(* every sample evaluated from then on satisfies trigger, samples keep     *)
(* being evaluated and the clock runs to its end, then shutdown is         *)
(* eventually fired.                                                       *)
C29_EventuallyFires ==
    (/\ []running
     /\ <>(/\ Evaluated /\ Trigger(ev) /\ now + DelayTicks <= MaxTime
           /\ [](Evaluated => Trigger(ev)))
     /\ []<>Evaluated
     /\ <>(now = MaxTime))
    => <>(shutdownCalls >= 1)

C29_Witness ==
    /\ Evaluated
    /\ ev.fired
    /\ running
    /\ Trigger(ev)
    /\ config.delay_seconds > 0
    /\ now = MaxTime
    /\ ev.pre # <<>>
    /\ ev.pre[1] + DelayTicks <= MaxTime
    /\ shutdownCalls = 1

(* The clock and the session counter of the model are bounded: a sleep     *)
(* that would end after MaxTime, and a session start after MaxSessions,    *)
(* lie beyond what is explored.                                            *)
BeyondHorizon ==
    \/ pc = "start" /\ sessions >= MaxSessions
    \/ pc = "backoff_sleep" /\ now + Secs(BACKOFF_SECS) > MaxTime
    \/ pc = "eof_sleep" /\ now + Secs(EOF_SLEEP_SECS) > MaxTime
    \/ pc = "err_sleep" /\ now + Secs(ERR_SLEEP_SECS) > MaxTime

(* C30: once the flag is cleared and unless shutdown is fired, the main     *)
(* thread leaves run_monitoring_loop and the supervisor loop and main       *)
(* returns; the flag is never set back to true.                             *)
C30_ReturnsAfterSignal ==
    /\ (~running) ~> (pc = "done" \/ shutdownCalls >= 1 \/ BeyondHorizon)
    /\ [][running' => running]_vars

----------------------------------------------------------------------------
(* Properties of the broadcasting monitor loop (SpecDaemon).  config.rs    *)
(* has neither max_valid_voltage nor shutdown_cancel_margin; the           *)
(* properties take the defaults of main.rs for them.                       *)

default_cancel_margin == 5
default_max_valid_voltage == 26000

DaemonOutOfRange(v) == v < config.min_valid_voltage \/ v > default_max_valid_voltage

(* trigger as specified: on the shutdown-decision metric sd *)
DaemonTrigger(e) == e.sd < config.shutdown_threshold /\ DaemonOutOfRange(e.vi)

(* C8: in run_daemon a countdown is started, and kept running, on exactly  *)
(* the samples with sd < shutdown_threshold and vi outside the valid       *)
(* range: the decision uses sd, not the display soc.                       *)
C8_DaemonTriggerOnSd ==
    Evaluated =>
        /\ ev.pre = None => (shutdown_timer # None <=> DaemonTrigger(ev))
        /\ (ev.pre # None /\ DaemonTrigger(ev)) => shutdown_timer # None

(* C9: in run_daemon an active countdown is cancelled if and only if the   *)
(* sample shows power restored or its metric has reached threshold +       *)
(* margin; an on-battery sample with the metric in [threshold,             *)
(* threshold + margin) leaves the countdown running.  Stated for the       *)
(* samples whose soc and sd agree, so that it does not depend on which of  *)
(* the two is taken as the metric.                                         *)
C9_DaemonCancelIff ==
    (Evaluated /\ ev.pre # None /\ ~ev.fired /\ ev.soc = ev.sd) =>
        (shutdown_timer = None <=>
            (\/ ~DaemonOutOfRange(ev.vi)
             \/ ev.sd >= config.shutdown_threshold + default_cancel_margin))

(* C11: a line that does not decode is dropped: the countdown and the      *)
(* observer set are as before, nothing is written to any observer, no      *)
(* error is returned and the loop goes to its next iteration, also while a *)
(* countdown is active and for every further malformed line.               *)
C11_MalformedDropped ==
    [][ev'.type = "parse_error" =>
          /\ shutdown_timer' = shutdown_timer
          /\ clients' = clients
          /\ sent' = <<>>
          /\ pc' = "loop"
          /\ result' = "none"
          /\ sessions' = sessions
          /\ shutdownCalls' = shutdownCalls]_vars

C11_Witness ==
    /\ ev.type = "parse_error"
    /\ ev.pre # <<>>
    /\ shutdown_timer = ev.pre
    /\ clients # <<>>
    /\ pc = "loop"

(* C12: a zero-length read and a read timeout are transient: the session   *)
(* goes on with the next iteration (after the pause of the zero-length     *)
(* read), the countdown and the observer set are unchanged, shutdown is    *)
(* not fired and nothing is returned to the supervisor.                    *)
C12_EofTimeoutTransient ==
    [][(ev'.type \in {"eof", "timeout"} \/ pc = "eof_sleep") =>
          /\ shutdown_timer' = shutdown_timer
          /\ clients' = clients
          /\ sent' = <<>>
          /\ pc' \in {"eof_sleep", "loop"}
          /\ ev'.type = "eof" => pc' = "eof_sleep"
          /\ ev'.type = "timeout" => pc' = "loop"
          /\ result' = "none"
          /\ sessions' = sessions
          /\ shutdownCalls' = shutdownCalls]_vars

C12_Witness ==
    /\ ev.type = "timeout"
    /\ ev.pre # <<>>
    /\ shutdown_timer = ev.pre
    /\ clients # <<>>
    /\ pc = "loop"

----------------------------------------------------------------------------
(* Properties of the IpcServer (SpecIpc) *)

AllWritten(writes) == \A i \in DOMAIN writes : writes[i].result = "ok"

(* C17: a broadcast to N observers whose writes all succeed gives each of  *)
(* the N observers exactly one line, the same for all: the serialization   *)
(* of the sample followed by a newline; the observer set is unchanged.     *)
C17_BroadcastToAll ==
    [][(ev'.type = "sample" /\ AllWritten(sent')) =>
          /\ Len(sent') = Len(clients)
          /\ \A i \in DOMAIN clients :
                /\ sent'[i].id = clients[i].id
                /\ sent'[i].message = <<[soc |-> ev'.soc, vi |-> ev'.vi], "\n">>
          /\ clients' = clients]_vars

C17_Witness ==
    /\ ev.type = "sample"
    /\ Len(sent) = 2
    /\ AllWritten(sent)
    /\ Len(clients) = 2
    /\ sent[1].id # sent[2].id

Position(cs, id) == CHOOSE i \in DOMAIN cs : cs[i].id = id

(* C18: an observer whose write fails or times out leaves the observer set *)
(* in that same broadcast and is never written to again; the observers     *)
(* whose write succeeded stay, in their order, and the server goes on.     *)
C18_FailedObserverEvicted ==
    /\ [][ev'.type = "sample" =>
             /\ \A i \in DOMAIN sent' : sent'[i].id \notin evicted
             /\ \A i \in DOMAIN sent' :
                   sent'[i].result # "ok" =>
                       \A k \in DOMAIN clients' : clients'[k].id # sent'[i].id
             /\ pc' = "serving"
             /\ \A i \in DOMAIN sent' :
                   sent'[i].result = "ok" =>
                       \E k \in DOMAIN clients' : clients'[k] = clients[i]
             /\ \A a, b \in DOMAIN clients' :
                   a < b => Position(clients, clients'[a].id)
                               < Position(clients, clients'[b].id)]_vars
    /\ [](\A k \in DOMAIN clients : clients[k].id \notin evicted)

C18_Witness ==
    /\ ev.type = "sample"
    /\ Len(sent) = 2
    /\ sent[1].result = "timeout"
    /\ sent[2].result = "ok"
    /\ Len(clients) = 1
    /\ clients[1].id = sent[2].id
    /\ pc = "serving"

(* C19: the delivery of a sample to an observer does not wait for the      *)
(* completion or the timeout of the write to any other observer: a stalled *)
(* observer does not delay the others.                                     *)
C19_NoDelayByOthers ==
    ev.type = "sample" =>
        \A i \in DOMAIN sent : sent[i].began_after_ms = 0

(* C25: broadcast attempts one write per observer per sample, with no      *)
(* retry and no buffer: a broadcast writes to each observer of the set at   *)
(* most once, writes the current sample only, and writes to no connection   *)
(* that accept_clients has not yet put into the set; no other operation     *)
(* writes anything.                                                         *)
C25_AtMostOncePerObserver ==
    [][/\ \A i, k \in DOMAIN sent' : sent'[i].id = sent'[k].id => i = k
       /\ \A i \in DOMAIN sent' :
             /\ sent'[i].id \in ClientIds(clients)
             /\ \A k \in DOMAIN pending : pending[k] # sent'[i].id
             /\ sent'[i].message = <<[soc |-> ev'.soc, vi |-> ev'.vi], "\n">>
       /\ ev'.type # "sample" => sent' = <<>>]_vars

C25_Witness ==
    /\ ev.type = "sample"
    /\ Len(sent) = 1
    /\ sent[1].result = "error"
    /\ pending = <<2>>
    /\ clients = <<>>

(* C26: every observer in the set has a bounded write timeout, so that no  *)
(* broadcast blocks without bound on one observer.                         *)
C26_EveryObserverHasTimeout ==
    /\ \A i \in DOMAIN clients : clients[i].write_timeout
    /\ pc # "write_blocked"

(* C31: while an IpcServer exists (from the return of new to its drop)    *)
(* the socket path exists and a connection to it reaches that server's     *)
(* listener, whatever another IpcServer on the same path does.             *)
C31_PathReachesOwnListener ==
    \A i \in DOMAIN instances :
       instances[i] = "live" => (socket = "bound" /\ bound_to = i)

----------------------------------------------------------------------------
(* Properties of the broadcasting monitor loop (SpecDaemon), continued *)

(* C23: every decoded sample is broadcast once, to the observers of the    *)
(* set at that moment, in the step that evaluates it and whatever the      *)
(* decision is (start, cancel or fire); nothing is published by any other  *)
(* step, and nothing after shutdown has fired.                             *)
C23_BroadcastBeforeDecision ==
    [][/\ ev'.type = "sample" =>
             /\ Len(sent') = Len(clients)
             /\ \A i \in DOMAIN clients :
                   /\ sent'[i].id = clients[i].id
                   /\ sent'[i].message = <<[soc |-> ev'.soc, vi |-> ev'.vi], "\n">>
       /\ ev'.type # "sample" => sent' = <<>>
       /\ shutdownCalls >= 1 => sent' = <<>>]_vars

C23_Witness ==
    /\ ev.type = "sample"
    /\ ev.fired
    /\ shutdownCalls = 1
    /\ Len(sent) = 1
    /\ sent[1].result = "ok"


(* C20: whenever run_daemon has returned after IpcServer::new succeeded,   *)
(* the socket file at socket_path has been removed.                        *)
C20_SocketRemovedOnReturn ==
    pc = "returned" => socket = "absent"

====
